---- MODULE Spec2Model ----
(***************************************************************************)
(* Notification cadence and delivery engine of Card-Nudge-Server.          *)
(*                                                                         *)
(* The model follows the send-notification edge function: the Deno.serve   *)
(* handler (run orchestrator), NotificationSender.processUserNotifications *)
(* (cadence evaluation), FirebaseService.sendNotification (multicast       *)
(* dispatch and per-token classification) and the SupabaseService queries  *)
(* (settings, device_tokens, payments, cards, notification_logs).          *)
(*                                                                         *)
(* Spec runs invocations one after another, SpecOverlap lets two overlap,  *)
(* SpecUsers runs one slot over two users' data and SpecCompose composes   *)
(* one message (NotificationMessageBuilder and formatCurrency).            *)
(* SpecFair is one invocation whose steps run to completion, SpecDays      *)
(* evaluates getDaysDifference on pairs of instants and SpecDaily is one   *)
(* invocation per day over MaxDay days.                                    *)
(*                                                                         *)
(* Time is counted in ticks; TicksPerDay ticks make one day and tick 0 is  *)
(* 00:00 UTC of day 0.  A DATE column holds a day number.                  *)
(***************************************************************************)
EXTENDS Integers, Sequences, FiniteSets, TLC

\* ------------------------------------------------------------------ bounds
MaxClock == 3
MaxRuns == 2
MaxDay == 5
TicksPerDay == 2

\* ---------------------------------------------------------------- universe
Users == {"u1", "u2"}
CardIds == {"c1", "c2"}
PaymentIds == {"p1", "p2"}
TokenIds == {"t1", "t2"}
\* The order in which the store returns rows (a query without ORDER BY).  The
\* handler reads notification_logs only, and writes it after the last user, so
\* no decision of a run depends on the order in which it visits rows.
UserSeq == <<"u1", "u2">>
\* The four reads of processUserNotifications.
UserReads ==
  {"getUserSetting", "getDeviceTokens", "getUserPayments", "getUserCards"}
CardSeq == <<"c1", "c2">>
PaymentSeq == <<"p1", "p2">>
TokenSeq == <<"t1", "t2">>
Runs == {1, 2}
Slots == 0 .. (TicksPerDay - 1)

DueDays == {-10, -7, 0, 1, 6, 9}
BillingDays == {-3, 0, 4}
PriorDays == {-3, -2}

PermanentCodes ==
  {"messaging/invalid-registration-token",
   "messaging/registration-token-not-registered",
   "messaging/not-found"}
TransientCodes == {"messaging/quota-exceeded", "messaging/internal-error"}

NoCode == "none"
\* A NULL column value, as the store returns it (null).
NoValue == "null"
\* Values of settings.language and settings.currency (TEXT, nullable), and of
\* payments.statement_amount (DOUBLE PRECISION, nullable).
Languages == {"english", "Hindi", "french", NoValue}
Currencies == {"INR", "rupees", NoValue}
NoAmount == -1
Amounts == {1200, NoAmount}
NoSetting == [language |-> "", currency |-> ""]
NoLog ==
  [user_id |-> "", card_id |-> "", notification_type |-> "", title |-> <<>>,
   sent_at |-> 0]

VARIABLES
  clock,            \* current instant, in ticks
  tz,               \* offset of the process's local time zone, in ticks
  firebaseApp,      \* FirebaseService.app is defined
  supabaseClient,   \* SupabaseService.client is defined
  storeFails,       \* the data store may answer a read with an error
  composeInput,     \* arguments of a message composition
  message,          \* the message composed from composeInput
  dateArgs,         \* two instants, the arguments of getDaysDifference
  daysBetween,      \* getDaysDifference of dateArgs, in both directions
  settings,         \* table settings: user -> row
  cardsTable,       \* table cards: set of rows
  paymentsTable,    \* table payments (unpaid rows, joined with their card)
  device_tokens,    \* table device_tokens: set of <<user, token>>
  notification_logs,\* table notification_logs: set of rows
  run,              \* the in-flight invocations of the handler
  trace,            \* per invocation: what it evaluated and dispatched
  runsStarted,      \* number of invocations that found users to notify
  prevTransient     \* (user, card, kind) with a transient failure in the user's last run

vars == <<clock, tz, firebaseApp, supabaseClient, storeFails, composeInput,
          message, dateArgs, daysBetween, settings, cardsTable,
          paymentsTable, device_tokens, notification_logs, run, trace,
          runsStarted, prevTransient>>

store == <<settings, cardsTable, paymentsTable>>
env == <<tz, firebaseApp, supabaseClient, storeFails, composeInput, message,
         dateArgs, daysBetween>>

\* ------------------------------------------------- cadence thresholds (days)
DueNearDays == 5
DueRepeatDays == 3
OverdueNearDays == 7
OverdueRepeatDays == 3
BillingNearDays == 3
BillingRepeatDays == 3

\* ------------------------------------------------------------------ helpers
Range(s) == {s[i] : i \in 1 .. Len(s)}

Abs(n) == IF n < 0 THEN -n ELSE n

\* new Date("YYYY-MM-DD"): a DATE column read as 00:00 UTC of that day.
DateOf(day) == day * TicksPerDay

\* Date.getFullYear/getMonth/getDate: the calendar day of an instant in the
\* process's local time zone.
CivilDay(t) == (t + tz) \div TicksPerDay

\* now.toISOString().slice(11, 16): the UTC time of day, "HH:MM".
TimeOfDay(t) == t % TicksPerDay

\* Elapsed whole days, as Math.floor((d2 - d1) / MS_PER_DAY) would give.
getDaysDifference_elapsed(d1, d2) == (d2 - d1) \div TicksPerDay

\* Date.UTC(d.getFullYear(), d.getMonth(), d.getDate()): 00:00 UTC of the
\* calendar date that d has in the local time zone.
DateUTC(d) == CivilDay(d) * TicksPerDay

\* Math.floor((utc2 - utc1) / MS_PER_DAY)
getDaysDifference(d1, d2) == (DateUTC(d2) - DateUTC(d1)) \div TicksPerDay

NoDates == [d1 |-> 0, d2 |-> 0]

NoDays == [done |-> FALSE, forward |-> 0, backward |-> 0]

\* ---------------------------------------------------------- SupabaseService
isInitialized_supabaseOnly == supabaseClient

\* supabaseService.isInitialized() && firebaseService.isInitialized()
isInitialized == supabaseClient /\ firebaseApp

getUsersToNotify_anyTime(time) ==
  SelectSeq(UserSeq, LAMBDA u : settings[u].notifications_enabled)

\* settings rows with notifications_enabled = true and reminder_time = time.
getUsersToNotify(time) ==
  SelectSeq(UserSeq, LAMBDA u : settings[u].notifications_enabled
                                /\ settings[u].reminder_time = time)

\* .single(): the user's row with notifications enabled, or null (NoSetting).
getUserSetting(userId) ==
  IF settings[userId].notifications_enabled
  THEN [language |-> settings[userId].language,
        currency |-> settings[userId].currency]
  ELSE NoSetting

getDeviceTokens(userId) ==
  SelectSeq(TokenSeq, LAMBDA t : <<userId, t>> \in device_tokens)

\* Unpaid payments of the user, each joined with its card (field cards).
getUserPayments(userId) ==
  LET ids == SelectSeq(PaymentSeq, LAMBDA p :
               \E row \in paymentsTable :
                 row.id = p /\ row.user_id = userId /\ ~row.is_paid)
      Row(p) == CHOOSE row \in paymentsTable : row.id = p
  IN [i \in 1 .. Len(ids) |->
        [id |-> ids[i], due_date |-> Row(ids[i]).due_date,
         due_amount |-> Row(ids[i]).due_amount,
         paid_amount |-> Row(ids[i]).paid_amount,
         statement_amount |-> Row(ids[i]).statement_amount,
         cards |-> Row(ids[i]).card_id]]

\* The columns of the joined card that getUserPayments selects:
\* cards(id, name, last_4_digits, billing_date, is_archived).
PaymentCardColumns ==
  {"id", "name", "last_4_digits", "billing_date", "is_archived"}

\* Boolean(card.is_auto_debit_enabled) for card = payment.cards: a column
\* the join does not select is undefined, and Boolean(undefined) is false.
is_auto_debit_enabled(cardId) ==
  /\ "is_auto_debit_enabled" \in PaymentCardColumns
  /\ cardsTable[cardId].is_auto_debit_enabled

\* Non-archived cards of the user.
getUserCards(userId) ==
  LET ids == SelectSeq(CardSeq, LAMBDA c :
               cardsTable[c].user_id = userId /\ ~cardsTable[c].is_archived)
  IN [i \in 1 .. Len(ids) |->
        [id |-> ids[i], billing_date |-> cardsTable[ids[i]].billing_date]]

getLastNotificationLog_oldest(userId, cardId, notificationType) ==
  LET rows == {l \in notification_logs :
                 /\ l.user_id = userId
                 /\ l.card_id = cardId
                 /\ l.notification_type = notificationType}
  IN IF rows = {} THEN NoLog
     ELSE CHOOSE l \in rows : \A m \in rows : m.sent_at >= l.sent_at

\* The most recent row for (user, card, type), or null (NoLog).
getLastNotificationLog(userId, cardId, notificationType) ==
  LET rows == {l \in notification_logs :
                 /\ l.user_id = userId
                 /\ l.card_id = cardId
                 /\ l.notification_type = notificationType}
  IN IF rows = {} THEN NoLog
     ELSE CHOOSE l \in rows : \A m \in rows : m.sent_at <= l.sent_at

insertNotificationLog_replacing(logs) ==
  {l \in notification_logs :
     ~\E i \in 1 .. Len(logs) :
        /\ logs[i].user_id = l.user_id
        /\ logs[i].card_id = l.card_id
        /\ logs[i].notification_type = l.notification_type}
  \cup Range(logs)

\* .from("notification_logs").insert(logs)
insertNotificationLog(logs) == notification_logs \cup Range(logs)

\* .delete().in("device_token", tokens): every row holding one of the tokens.
deleteStaleTokens(tokens) ==
  {d \in device_tokens : d[2] \notin Range(tokens)}

\* ---------------------------------------------------------- FirebaseService
Responses ==
  {[success |-> TRUE, error |-> NoCode]}
  \cup {[success |-> FALSE, error |-> e] :
          e \in PermanentCodes \cup TransientCodes \cup {NoCode}}

isPermanent_withoutNotFound(e) ==
  e \in PermanentCodes \ {"messaging/not-found"}

\* The error codes after which the token is queued for deletion.
isPermanent(e) == e \in PermanentCodes

\* What the gateway reported for one token: delivered, a permanent failure
\* of the token, or any other failure.
outcome(res) ==
  IF res.success THEN "success"
  ELSE IF res.error \in {"messaging/invalid-registration-token",
                         "messaging/registration-token-not-registered",
                         "messaging/not-found"} THEN "permanent"
  ELSE "transient"

RECURSIVE forEachResponse(_, _, _, _, _, _)
\* result.responses.forEach((res, i) => ...) of sendNotification.
forEachResponse(responses, tokens, entry, logs, failedTokens, i) ==
  IF i > Len(responses) THEN [logs |-> logs, failedTokens |-> failedTokens]
  ELSE LET res == responses[i] IN
    IF res.success
      THEN forEachResponse(responses, tokens, entry,
                           Append(logs, entry), failedTokens, i + 1)
    ELSE IF res.error # NoCode /\ isPermanent(res.error)
      THEN forEachResponse(responses, tokens, entry,
                           logs, Append(failedTokens, tokens[i]), i + 1)
    ELSE forEachResponse(responses, tokens, entry, logs, failedTokens, i + 1)

\* ------------------------------------------------------ message composition
\* String.prototype.toLowerCase / toUpperCase on the values of the model;
\* on null they throw (the callers test for NoValue first).
toLowerCase(str) ==
  CASE str = "Hindi" -> "hindi"
    [] OTHER -> str

toUpperCase(str) ==
  CASE str = "rupees" -> "RUPEES"
    [] OTHER -> str

\* new NotificationMessageBuilder(lang): switch (lang.toLowerCase()).
\* lang.toLowerCase() throws a TypeError when lang is null.
NotificationMessageBuilder(lang) ==
  IF lang = NoValue THEN [thrown |-> TRUE, strings |-> ""]
  ELSE [thrown |-> FALSE,
        strings |-> IF toLowerCase(lang) = "hindi" THEN "hi" ELSE "en"]

\* Intl.NumberFormat accepts a currency code of three letters; ToString(null)
\* is "null".
IsWellFormedCurrencyCode(currencyCode) == currencyCode \in {"INR", "USD"}

\* formatCurrency: Intl.NumberFormat(...).format(amount), and in the catch
\* block amount.toLocaleString(lang) + " " + currencyCode.toUpperCase(), which
\* throws a TypeError when amount or currencyCode is null.
formatCurrency(amount, currencyCode, lang) ==
  IF IsWellFormedCurrencyCode(currencyCode)
    THEN [thrown |-> FALSE,
          text |-> <<"currency", lang, currencyCode,
                     IF amount = NoAmount THEN "0" ELSE ToString(amount)>>]
  ELSE IF amount = NoAmount \/ currencyCode = NoValue
    THEN [thrown |-> TRUE, text |-> <<>>]
  ELSE [thrown |-> FALSE,
        text |-> <<"number", lang, ToString(amount),
                   toUpperCase(currencyCode)>>]

Message(title, body) == [thrown |-> FALSE, title |-> title, body |-> body]

ThrownMessage == [thrown |-> TRUE, title |-> <<>>, body |-> <<>>]

\* The sentence hi.due and hi.overdue append when isAutoDebit is set; en.due
\* and en.overdue take no isAutoDebit parameter.
AutoDebitAdvisory(strings, isAutoDebit) ==
  IF strings = "hi" /\ isAutoDebit THEN <<"auto-debit is enabled">> ELSE <<>>

\* strings.due of en.ts / hi.ts, through builder.dueReminder.
dueReminder(strings, dueInDays, remaining, currencyCode, isAutoDebit) ==
  LET title == IF dueInDays = 0 THEN <<strings, "due today", "cardName">>
               ELSE IF dueInDays = 1
                 THEN <<strings, "due tomorrow", "cardName">>
               ELSE <<strings, ToString(dueInDays), "days left to pay",
                      "cardName">>
      amount == formatCurrency(remaining, currencyCode, strings)
  IN IF amount.thrown THEN ThrownMessage
     ELSE Message(title, <<strings, "please pay">> \o amount.text
                         \o AutoDebitAdvisory(strings, isAutoDebit))

\* strings.overdue, through builder.overdue.
overdue(strings, remaining, currencyCode, isAutoDebit) ==
  LET amount == formatCurrency(remaining, currencyCode, strings)
  IN IF amount.thrown THEN ThrownMessage
     ELSE Message(<<strings, "overdue payment", "cardName">>,
                  <<strings, "your payment is overdue">> \o amount.text
                  \o AutoDebitAdvisory(strings, isAutoDebit))

\* strings.billing, through builder.billingReminder.
billingReminder(strings, billingInDays) ==
  IF billingInDays < 0
    THEN Message(<<strings, "statement generated", "cardName">>,
                 <<strings, "statement was generated days ago">>)
  ELSE IF billingInDays = 0
    THEN Message(<<strings, "billing day today", "cardName">>,
                 <<strings, "statement will be generated soon">>)
  ELSE IF billingInDays = 1
    THEN Message(<<strings, "billing day tomorrow", "cardName">>,
                 <<strings, "billing date is tomorrow">>)
  ELSE Message(<<strings, "billing in days", ToString(billingInDays),
                 "cardName">>,
               <<strings, "billing date is approaching">>)

\* The message processUserNotifications composes for a reminder it sends.
compose(kind, strings, diffDays, remaining, currencyCode, isAutoDebit) ==
  CASE kind = "due" ->
         dueReminder(strings, diffDays, remaining, currencyCode, isAutoDebit)
    [] kind = "overdue" ->
         overdue(strings, remaining, currencyCode, isAutoDebit)
    [] OTHER -> billingReminder(strings, diffDays)

\* const builder = new NotificationMessageBuilder(userSetting.language),
\* then builder.dueReminder / overdue / billingReminder.
composeMessage(kind, lang, diffDays, remaining, currencyCode, isAutoDebit) ==
  LET builder == NotificationMessageBuilder(lang)
  IN IF builder.thrown THEN ThrownMessage
     ELSE compose(kind, builder.strings, diffDays, remaining, currencyCode,
                  isAutoDebit)

NoInput ==
  [kind |-> "", lang |-> "", diffDays |-> 0, remaining |-> NoAmount,
   currency |-> "", isAutoDebit |-> FALSE]

NoMessage == [thrown |-> FALSE, title |-> <<>>, body |-> <<>>]

\* ------------------------------------------------------- cadence evaluation
shouldSendDue_nearExclusive(userId, cardId, diffDaysDue, now) ==
  IF diffDaysDue < DueNearDays THEN TRUE
  ELSE LET lastLog == getLastNotificationLog(userId, cardId, "due") IN
       IF lastLog = NoLog THEN TRUE
       ELSE getDaysDifference(lastLog.sent_at, now) >= DueRepeatDays

shouldSendDue_intervalExclusive(userId, cardId, diffDaysDue, now) ==
  IF diffDaysDue <= DueNearDays THEN TRUE
  ELSE LET lastLog == getLastNotificationLog(userId, cardId, "due") IN
       IF lastLog = NoLog THEN TRUE
       ELSE getDaysDifference(lastLog.sent_at, now) > DueRepeatDays

shouldSendDue_daily(userId, cardId, diffDaysDue, now) ==
  IF diffDaysDue <= DueNearDays THEN TRUE
  ELSE LET lastLog == getLastNotificationLog(userId, cardId, "due") IN
       IF lastLog = NoLog THEN TRUE
       ELSE getDaysDifference(lastLog.sent_at, now) >= 1

\* The cadence rule of the due branch (diffDaysDue > 0).
shouldSendDue(userId, cardId, diffDaysDue, now) ==
  IF diffDaysDue <= DueNearDays THEN TRUE
  ELSE LET lastLog == getLastNotificationLog(userId, cardId, "due") IN
       IF lastLog = NoLog THEN TRUE
       ELSE getDaysDifference(lastLog.sent_at, now) >= DueRepeatDays

shouldSendOverdue_nearExclusive(userId, cardId, diffDaysDue, now) ==
  LET daysOverdue == Abs(diffDaysDue) IN
  IF daysOverdue < OverdueNearDays THEN TRUE
  ELSE LET lastLog == getLastNotificationLog(userId, cardId, "overdue") IN
       IF lastLog = NoLog THEN TRUE
       ELSE getDaysDifference(lastLog.sent_at, now) >= OverdueRepeatDays

\* The cadence rule of the overdue branch (diffDaysDue < 0).
shouldSendOverdue(userId, cardId, diffDaysDue, now) ==
  LET daysOverdue == Abs(diffDaysDue) IN
  IF daysOverdue <= OverdueNearDays THEN TRUE
  ELSE LET lastLog == getLastNotificationLog(userId, cardId, "overdue") IN
       IF lastLog = NoLog THEN TRUE
       ELSE getDaysDifference(lastLog.sent_at, now) >= OverdueRepeatDays

paymentReminder_todayOverdue(userId, cardId, diffDaysDue, now) ==
  IF diffDaysDue > 0
    THEN [kind |-> "due",
          send |-> shouldSendDue(userId, cardId, diffDaysDue, now)]
  ELSE [kind |-> "overdue",
        send |-> shouldSendOverdue(userId, cardId, diffDaysDue, now)]

paymentReminder_withPartial(userId, cardId, diffDaysDue, now) ==
  IF \E row \in paymentsTable :
       row.card_id = cardId /\ ~row.is_paid /\ row.paid_amount > 0
    THEN [kind |-> "partial", send |-> TRUE]
  ELSE IF diffDaysDue = 0
    THEN [kind |-> "due", send |-> TRUE]
  ELSE IF diffDaysDue > 0
    THEN [kind |-> "due",
          send |-> shouldSendDue(userId, cardId, diffDaysDue, now)]
  ELSE [kind |-> "overdue",
        send |-> shouldSendOverdue(userId, cardId, diffDaysDue, now)]

\* The branch taken for a payment: the kind of reminder and whether
\* sendNotification is called.
paymentReminder(userId, cardId, diffDaysDue, now) ==
  IF diffDaysDue = 0
    THEN [kind |-> "due", send |-> TRUE]
  ELSE IF diffDaysDue > 0
    THEN [kind |-> "due",
          send |-> shouldSendDue(userId, cardId, diffDaysDue, now)]
  ELSE [kind |-> "overdue",
        send |-> shouldSendOverdue(userId, cardId, diffDaysDue, now)]

shouldSendBilling_signed(userId, cardId, diffDaysBilling, now) ==
  IF diffDaysBilling = 0 THEN TRUE
  ELSE IF diffDaysBilling <= BillingNearDays THEN TRUE
  ELSE LET lastLog == getLastNotificationLog(userId, cardId, "billing") IN
       IF lastLog = NoLog THEN TRUE
       ELSE getDaysDifference(lastLog.sent_at, now) >= BillingRepeatDays

shouldSendBilling_bounded(userId, cardId, diffDaysBilling, now) ==
  IF diffDaysBilling = 0 THEN TRUE
  ELSE IF Abs(diffDaysBilling) <= BillingNearDays THEN TRUE
  ELSE IF Abs(diffDaysBilling) > 2 * BillingNearDays THEN FALSE
  ELSE LET lastLog == getLastNotificationLog(userId, cardId, "billing") IN
       IF lastLog = NoLog THEN TRUE
       ELSE getDaysDifference(lastLog.sent_at, now) >= BillingRepeatDays

\* The cadence rule of the billing branch.
shouldSendBilling(userId, cardId, diffDaysBilling, now) ==
  IF diffDaysBilling = 0 THEN TRUE
  ELSE IF Abs(diffDaysBilling) <= BillingNearDays THEN TRUE
  ELSE LET lastLog == getLastNotificationLog(userId, cardId, "billing") IN
       IF lastLog = NoLog THEN TRUE
       ELSE getDaysDifference(lastLog.sent_at, now) >= BillingRepeatDays

hasUnpaidPayment_never(payments, card) == FALSE

\* payments.some((p) => p.cards?.id === card.id)
hasUnpaidPayment(payments, card) ==
  \E i \in 1 .. Len(payments) : payments[i].cards = card.id

\* -------------------------------------------------------------- invocations
IdleRun(response) ==
  [pc |-> "idle", now |-> 0, usersToNotify |-> <<>>, userId |-> "",
   strings |-> "", currency |-> "",
   tokens |-> <<>>, payments |-> <<>>, cards |-> <<>>,
   todoPayments |-> <<>>, todoCards |-> <<>>, pending |-> <<>>, logs |-> <<>>,
   failedTokens |-> <<>>, response |-> response]

\* What an invocation has done: the reminders it evaluated and sent, the last
\* multicast, the reminders with a transient failure or with a success, the
\* (user, token) pairs the gateway reported as permanently invalid, what
\* the reads returned for each user it loaded (profile found, number of
\* tokens), and the number of calls of insertNotificationLog and deleteStaleTokens.
NoTrace ==
  [evals |-> <<>>, sent |-> <<>>, lastSend |-> <<>>, transient |-> {},
   succeeded |-> {}, invalid |-> {}, loaded |-> {}, inserts |-> 0,
   deletes |-> 0]

\* An exception leaves processUserNotifications and the handler: Deno.serve
\* answers 500 and the rest of the handler is not executed.
Abort(r) ==
  run' = [run EXCEPT ![r].pc = "idle", ![r].pending = <<>>,
                     ![r].response = "500 Internal Server Error"]

\* Deno.serve handler, up to the result of getUsersToNotify.
Start(r) ==
  /\ run[r].pc = "idle"
  /\ \/ \* a request that is not a GET
        /\ run' = [run EXCEPT ![r] = IdleRun("405 Method Not Allowed")]
        /\ trace' = [trace EXCEPT ![r] = NoTrace]
        /\ UNCHANGED runsStarted
     \/ /\ ~isInitialized
        /\ run' = [run EXCEPT ![r] = IdleRun("500 not initialized")]
        /\ trace' = [trace EXCEPT ![r] = NoTrace]
        /\ UNCHANGED runsStarted
     \/ /\ isInitialized
        /\ getUsersToNotify(TimeOfDay(clock)) = <<>> \/ storeFails
        /\ run' = [run EXCEPT ![r] = IdleRun("200 No users to notify")]
        /\ trace' = [trace EXCEPT ![r] = NoTrace]
        /\ UNCHANGED runsStarted
     \/ /\ isInitialized
        /\ getUsersToNotify(TimeOfDay(clock)) # <<>>
        /\ runsStarted < MaxRuns
        /\ run' = [run EXCEPT ![r] =
                     [IdleRun("") EXCEPT
                        !.pc = "user", !.now = clock,
                        !.usersToNotify = getUsersToNotify(TimeOfDay(clock))]]
        /\ trace' = [trace EXCEPT ![r] = NoTrace]
        /\ runsStarted' = runsStarted + 1
  /\ UNCHANGED <<clock, env, store, device_tokens, notification_logs,
                 prevTransient>>

skipUser_withoutProfileOnly(userSetting, tokens) == userSetting = NoSetting

\* if (!userSetting || !tokens.length) return;
skipUser(userSetting, tokens) == userSetting = NoSetting \/ Len(tokens) = 0

\* for (const userId of usersToNotify): the four reads of
\* processUserNotifications and its early return.
LoadUser(r) ==
  /\ run[r].pc = "user"
  /\ \/ /\ run[r].usersToNotify = <<>>
        /\ run' = [run EXCEPT ![r].pc = "insert"]
        /\ UNCHANGED trace
     \/ /\ run[r].usersToNotify # <<>>
        /\ \E failed \in IF storeFails THEN SUBSET UserReads ELSE {{}} :
             LET userId == Head(run[r].usersToNotify)
                 userSetting == IF "getUserSetting" \in failed THEN NoSetting
                                ELSE getUserSetting(userId)
                 tokens == IF "getDeviceTokens" \in failed THEN <<>>
                           ELSE getDeviceTokens(userId)
                 payments == IF "getUserPayments" \in failed THEN <<>>
                             ELSE getUserPayments(userId)
                 cards == IF "getUserCards" \in failed THEN <<>>
                          ELSE getUserCards(userId)
                 builder == NotificationMessageBuilder(userSetting.language)
                 read == [user_id |-> userId,
                          profile |-> userSetting # NoSetting,
                          tokens |-> Len(tokens)]
             IN /\ trace' = [trace EXCEPT ![r].loaded = @ \cup {read}]
                /\ IF skipUser(userSetting, tokens)
                     THEN run' = [run EXCEPT
                            ![r].usersToNotify = Tail(run[r].usersToNotify)]
                   ELSE IF builder.thrown
                     THEN Abort(r)
                   ELSE run' = [run EXCEPT
                            ![r].pc = "payment", ![r].userId = userId,
                            ![r].strings = builder.strings,
                            ![r].currency = userSetting.currency,
                            ![r].tokens = tokens, ![r].payments = payments,
                            ![r].cards = cards,
                            ![r].todoPayments = payments,
                            ![r].todoCards = cards]
  /\ UNCHANGED <<clock, env, store, device_tokens, notification_logs,
                 runsStarted, prevTransient>>

\* One iteration of for (const payment of payments), up to the call of
\* sendNotification.
EvaluatePayment(r) ==
  /\ run[r].pc = "payment"
  /\ \/ /\ run[r].todoPayments = <<>>
        /\ run' = [run EXCEPT ![r].pc = "card"]
        /\ UNCHANGED trace
     \/ /\ run[r].todoPayments # <<>>
        /\ LET payment == Head(run[r].todoPayments)
               card == payment.cards
               now == run[r].now
               diffDaysDue == getDaysDifference(now, DateOf(payment.due_date))
               reminder == paymentReminder(run[r].userId, card, diffDaysDue,
                                           now)
               send == reminder.send
               remaining == payment.statement_amount
               msg == compose(reminder.kind, run[r].strings, diffDaysDue,
                              remaining, run[r].currency,
                              is_auto_debit_enabled(card))
               ev == [user_id |-> run[r].userId, subject |-> payment.id,
                      card_id |-> card, kind |-> reminder.kind,
                      diff |-> diffDaysDue, send |-> send,
                      title |-> IF send THEN msg.title ELSE <<>>,
                      body |-> IF send THEN msg.body ELSE <<>>]
           IN /\ IF send /\ msg.thrown
                 THEN Abort(r)
                 ELSE run' = [run EXCEPT
                           ![r].todoPayments = Tail(run[r].todoPayments),
                           ![r].pending = IF send THEN <<ev>> ELSE <<>>,
                           ![r].pc = IF send THEN "sendPayment" ELSE "payment"]
              /\ trace' = [trace EXCEPT ![r].evals = Append(@, ev),
                                        ![r].lastSend = <<>>]
  /\ UNCHANGED <<clock, env, store, device_tokens, notification_logs,
                 runsStarted, prevTransient>>

\* One iteration of for (const card of cards), up to the call of
\* sendNotification.
EvaluateCard(r) ==
  /\ run[r].pc = "card"
  /\ \/ /\ run[r].todoCards = <<>>
        /\ run' = [run EXCEPT ![r].pc = "user",
                     ![r].usersToNotify = Tail(run[r].usersToNotify)]
        /\ UNCHANGED trace
     \/ /\ run[r].todoCards # <<>>
        /\ hasUnpaidPayment(run[r].payments, Head(run[r].todoCards))
        /\ run' = [run EXCEPT ![r].todoCards = Tail(run[r].todoCards)]
        /\ trace' = [trace EXCEPT ![r].lastSend = <<>>]
     \/ /\ run[r].todoCards # <<>>
        /\ ~hasUnpaidPayment(run[r].payments, Head(run[r].todoCards))
        /\ LET card == Head(run[r].todoCards)
               now == run[r].now
               diffDaysBilling ==
                 getDaysDifference(now, DateOf(card.billing_date))
               send == shouldSendBilling(run[r].userId, card.id,
                                         diffDaysBilling, now)
               msg == billingReminder(run[r].strings, diffDaysBilling)
               ev == [user_id |-> run[r].userId, subject |-> card.id,
                      card_id |-> card.id, kind |-> "billing",
                      diff |-> diffDaysBilling, send |-> send,
                      title |-> IF send THEN msg.title ELSE <<>>,
                      body |-> IF send THEN msg.body ELSE <<>>]
           IN /\ IF send /\ msg.thrown
                 THEN Abort(r)
                 ELSE run' = [run EXCEPT
                           ![r].todoCards = Tail(run[r].todoCards),
                           ![r].pending = IF send THEN <<ev>> ELSE <<>>,
                           ![r].pc = IF send THEN "sendCard" ELSE "card"]
              /\ trace' = [trace EXCEPT ![r].evals = Append(@, ev),
                                        ![r].lastSend = <<>>]
  /\ UNCHANGED <<clock, env, store, device_tokens, notification_logs,
                 runsStarted, prevTransient>>

\* `${notificationType}-${cardId}`: android.notification.tag and the
\* apns-collapse-id header of the multicast message.
collapseId(notificationType, cardId) == <<notificationType, "-", cardId>>

sendNotification_uncaught(r, back) ==
  LET ev == run[r].pending[1]
      tokens == run[r].tokens
      entry == [user_id |-> ev.user_id, card_id |-> ev.card_id,
                notification_type |-> ev.kind, title |-> ev.title,
                sent_at |-> clock]
      call(responses, threw) ==
        [ev |-> ev, tokens |-> tokens,
         tag |-> collapseId(ev.kind, ev.card_id),
         outcomes |-> [i \in 1 .. Len(responses) |-> outcome(responses[i])],
         threw |-> threw, logsBefore |-> run[r].logs,
         failedBefore |-> run[r].failedTokens]
  IN
  /\ \/ /\ Abort(r)
        /\ trace' = [trace EXCEPT ![r].sent = Append(@, ev),
                                  ![r].lastSend = <<call(<<>>, TRUE)>>]
     \/ \E responses \in [1 .. Len(tokens) -> Responses] :
          LET out == forEachResponse(responses, tokens, entry, run[r].logs,
                                     run[r].failedTokens, 1)
              transient ==
                \E i \in 1 .. Len(tokens) :
                  outcome(responses[i]) = "transient"
          IN /\ run' = [run EXCEPT ![r].pc = back, ![r].pending = <<>>,
                          ![r].logs = out.logs,
                          ![r].failedTokens = out.failedTokens]
             /\ trace' = [trace EXCEPT
                            ![r].sent = Append(@, ev),
                            ![r].lastSend = <<call(responses, FALSE)>>,
                            ![r].invalid =
                              @ \cup {<<ev.user_id, tokens[i]>> :
                                        i \in {k \in 1 .. Len(tokens) :
                                          outcome(responses[k]) = "permanent"}},
                            ![r].succeeded =
                              IF \E i \in 1 .. Len(tokens) : responses[i].success
                              THEN @ \cup {ev}
                              ELSE @,
                            ![r].transient =
                              IF transient
                              THEN @ \cup {[user_id |-> ev.user_id,
                                            card_id |-> ev.card_id,
                                            kind |-> ev.kind,
                                            day |-> CivilDay(run[r].now)]}
                              ELSE @]
  /\ UNCHANGED <<clock, env, store, device_tokens, notification_logs,
                 runsStarted, prevTransient>>

\* FirebaseService.sendNotification: one multicast to the user's tokens.
sendNotification(r, back) ==
  LET ev == run[r].pending[1]
      tokens == run[r].tokens
      entry == [user_id |-> ev.user_id, card_id |-> ev.card_id,
                notification_type |-> ev.kind, title |-> ev.title,
                sent_at |-> clock]
      call(responses, threw) ==
        [ev |-> ev, tokens |-> tokens,
         tag |-> collapseId(ev.kind, ev.card_id),
         outcomes |-> [i \in 1 .. Len(responses) |-> outcome(responses[i])],
         threw |-> threw, logsBefore |-> run[r].logs,
         failedBefore |-> run[r].failedTokens]
  IN
  /\ \/ \* sendEachForMulticast throws: caught and logged
        /\ run' = [run EXCEPT ![r].pc = back, ![r].pending = <<>>]
        /\ trace' = [trace EXCEPT ![r].sent = Append(@, ev),
                                  ![r].lastSend = <<call(<<>>, TRUE)>>]
     \/ \E responses \in [1 .. Len(tokens) -> Responses] :
          LET out == forEachResponse(responses, tokens, entry, run[r].logs,
                                     run[r].failedTokens, 1)
              transient ==
                \E i \in 1 .. Len(tokens) :
                  outcome(responses[i]) = "transient"
          IN /\ run' = [run EXCEPT ![r].pc = back, ![r].pending = <<>>,
                          ![r].logs = out.logs,
                          ![r].failedTokens = out.failedTokens]
             /\ trace' = [trace EXCEPT
                            ![r].sent = Append(@, ev),
                            ![r].lastSend = <<call(responses, FALSE)>>,
                            ![r].invalid =
                              @ \cup {<<ev.user_id, tokens[i]>> :
                                        i \in {k \in 1 .. Len(tokens) :
                                          outcome(responses[k]) = "permanent"}},
                            ![r].succeeded =
                              IF \E i \in 1 .. Len(tokens) : responses[i].success
                              THEN @ \cup {ev}
                              ELSE @,
                            ![r].transient =
                              IF transient
                              THEN @ \cup {[user_id |-> ev.user_id,
                                            card_id |-> ev.card_id,
                                            kind |-> ev.kind,
                                            day |-> CivilDay(run[r].now)]}
                              ELSE @]
  /\ UNCHANGED <<clock, env, store, device_tokens, notification_logs,
                 runsStarted, prevTransient>>

SendPayment(r) == run[r].pc = "sendPayment" /\ sendNotification(r, "payment")

SendCard(r) == run[r].pc = "sendCard" /\ sendNotification(r, "card")

InsertLogs_notAwaited(r) ==
  /\ run[r].pc = "insert"
  /\ run' = [run EXCEPT ![r].pc = "delete"]
  /\ trace' = [trace EXCEPT ![r].lastSend = <<>>,
                            ![r].inserts =
                              IF Len(run[r].logs) # 0 THEN @ + 1 ELSE @]
  /\ UNCHANGED <<clock, env, store, device_tokens, notification_logs,
                 runsStarted, prevTransient>>

InsertLogs_unconditional(r) ==
  /\ run[r].pc = "insert"
  /\ notification_logs' = insertNotificationLog(run[r].logs)
  /\ run' = [run EXCEPT ![r].pc = "delete"]
  /\ trace' = [trace EXCEPT ![r].lastSend = <<>>, ![r].inserts = @ + 1]
  /\ UNCHANGED <<clock, env, store, device_tokens, runsStarted, prevTransient>>

\* if (logs.length) await supabaseService.insertNotificationLog(logs)
InsertLogs(r) ==
  /\ run[r].pc = "insert"
  /\ notification_logs' = IF Len(run[r].logs) # 0
                          THEN insertNotificationLog(run[r].logs)
                          ELSE notification_logs
  /\ run' = [run EXCEPT ![r].pc = "delete"]
  /\ trace' = [trace EXCEPT ![r].lastSend = <<>>,
                            ![r].inserts =
                              IF Len(run[r].logs) # 0 THEN @ + 1 ELSE @]
  /\ UNCHANGED <<clock, env, store, device_tokens, runsStarted, prevTransient>>

\* if (failedTokens.length) await supabaseService.deleteStaleTokens(...),
\* then the response.
DeleteTokens(r) ==
  /\ run[r].pc = "delete"
  /\ device_tokens' = IF Len(run[r].failedTokens) # 0
                      THEN deleteStaleTokens(run[r].failedTokens)
                      ELSE device_tokens
  /\ run' = [run EXCEPT ![r] = IdleRun("200 Notification routine complete")]
  /\ LET processed == {trace[r].evals[i].user_id :
                         i \in 1 .. Len(trace[r].evals)}
     IN prevTransient' =
          {x \in prevTransient : x.user_id \notin processed}
          \cup trace[r].transient
  /\ trace' = [trace EXCEPT ![r] =
                  [NoTrace EXCEPT
                     !.inserts = trace[r].inserts,
                     !.deletes = IF Len(run[r].failedTokens) # 0
                                 THEN trace[r].deletes + 1
                                 ELSE trace[r].deletes]]
  /\ UNCHANGED <<clock, env, store, notification_logs, runsStarted>>

\* The platform stops the invocation while it awaits (the worker is shut
\* down, or the request is cancelled): nothing after the await is executed.
Cancel(r) ==
  /\ run[r].pc \in {"user", "payment", "sendPayment", "card", "sendCard",
                    "insert", "delete"}
  /\ run' = [run EXCEPT ![r].pc = "idle", ![r].pending = <<>>,
                        ![r].response = "cancelled"]
  /\ UNCHANGED <<clock, env, store, device_tokens, notification_logs, trace,
                 runsStarted, prevTransient>>

\* Time passes.
Tick ==
  /\ clock < MaxClock
  /\ clock' = clock + 1
  /\ UNCHANGED <<env, store, device_tokens, notification_logs, run, trace,
                 runsStarted, prevTransient>>

Step(r) ==
  \/ LoadUser(r)
  \/ EvaluatePayment(r)
  \/ SendPayment(r)
  \/ EvaluateCard(r)
  \/ SendCard(r)
  \/ InsertLogs(r)
  \/ DeleteTokens(r)

\* ------------------------------------------------------------ initial store
Payment(id, card, due) ==
  [id |-> id, user_id |-> "u1", card_id |-> card, due_date |-> due,
   due_amount |-> 1200, paid_amount |-> 0, statement_amount |-> 1200,
   is_paid |-> FALSE]

Scenarios ==
  {[payments |-> {Payment("p1", "c1", d)}, billing |-> 0] : d \in DueDays}
  \cup {[payments |-> {}, billing |-> b] : b \in BillingDays}
  \cup {[payments |-> {Payment("p1", "c1", 9), Payment("p2", "c1", -10)},
         billing |-> 0],
        [payments |-> {[Payment("p1", "c1", 0) EXCEPT !.is_paid = TRUE]},
         billing |-> 0]}

PriorLogs ==
  {{}} \cup
  {{[user_id |-> "u1", card_id |-> "c1", notification_type |-> k,
     title |-> <<"en", "cardName">>, sent_at |-> DateOf(d)]} :
     k \in {"due", "overdue", "billing"}, d \in PriorDays}

InitStore(scenarios, priors, zones, flags) ==
  /\ clock = 0
  /\ tz \in zones
  /\ firebaseApp \in flags
  /\ supabaseClient \in flags
  /\ storeFails = FALSE
  /\ composeInput = NoInput
  /\ message = NoMessage
  /\ dateArgs = NoDates
  /\ daysBetween = NoDays
  /\ settings = [u \in Users |->
                   [notifications_enabled |-> TRUE, reminder_time |-> 0,
                    language |-> "english", currency |-> "INR"]]
  /\ \E sc \in scenarios :
       /\ paymentsTable = sc.payments
       /\ cardsTable =
            [c \in CardIds |->
               IF c = "c1"
               THEN [user_id |-> "u1", billing_date |-> sc.billing,
                     is_archived |-> FALSE, is_auto_debit_enabled |-> FALSE]
               ELSE [user_id |-> "u2", billing_date |-> 0,
                     is_archived |-> FALSE, is_auto_debit_enabled |-> FALSE]]
  /\ device_tokens = {<<"u1", "t1">>, <<"u1", "t2">>}
  /\ notification_logs \in priors
  /\ run = [r \in Runs |-> IdleRun("")]
  /\ trace = [r \in Runs |-> NoTrace]
  /\ runsStarted = 0
  /\ prevTransient = {}

TzOffsets == {-1, 0}

Init == InitStore(Scenarios, PriorLogs, TzOffsets, BOOLEAN)

\* One invocation at a time, as the scheduler triggers them.
Next == Tick \/ Start(1) \/ Step(1)

Spec == Init /\ [][Next]_vars

\* Invocations may overlap: Deno.serve runs a second request's handler while
\* the first one awaits.  The second slot is used only while the first is busy.
StartOverlapping(r) == (r = 1 \/ run[1].pc # "idle") /\ Start(r)

OverlapScenarios ==
  {[payments |-> {Payment("p1", "c1", 9)}, billing |-> 0],
   [payments |-> {}, billing |-> 4]}

InitOverlap == InitStore(OverlapScenarios, {{}}, {0}, BOOLEAN)

NextOverlap == Tick \/ \E r \in Runs : StartOverlapping(r) \/ Step(r)

SpecOverlap == InitOverlap /\ [][NextOverlap]_vars

\* Several users with different profiles and endpoints; store reads may
\* fail and the platform may stop an invocation.
SharedToken == {<<"u1", "t1">>, <<"u1", "t2">>, <<"u2", "t1">>}
OnlySecondUser == {<<"u2", "t1">>}
OneTokenEach == {<<"u1", "t1">>, <<"u2", "t2">>}

TwoDuePayments == {Payment("p1", "c1", 9), Payment("p2", "c1", 6)}
DueToday == {Payment("p1", "c1", 0)}
\* A payment of 1200 of which 500 are paid.
PartlyPaid ==
  {[Payment("p1", "c1", 0) EXCEPT !.paid_amount = 500]}
DueTodayNoAmount ==
  {[Payment("p1", "c1", 0) EXCEPT !.statement_amount = NoAmount]}

UserScenario(lang1, cur1, lang2, enabled2, time2, endpoints, payments, fails) ==
  [lang1 |-> lang1, cur1 |-> cur1, lang2 |-> lang2, enabled2 |-> enabled2,
   time2 |-> time2, endpoints |-> endpoints, payments |-> payments,
   fails |-> fails, autoDebit |-> FALSE]

UserScenarios ==
  {UserScenario("english", "INR", "english", TRUE, 0, OneTokenEach,
                TwoDuePayments, FALSE),
   UserScenario(NoValue, "INR", "english", TRUE, 0, OneTokenEach,
                DueToday, FALSE),
   UserScenario("Hindi", "INR", NoValue, TRUE, 0, OneTokenEach,
                DueToday, FALSE),
   UserScenario("english", NoValue, "english", TRUE, 0, OneTokenEach,
                DueToday, FALSE),
   UserScenario("english", "rupees", "english", TRUE, 0, OneTokenEach,
                DueToday, FALSE),
   UserScenario("french", "rupees", "english", TRUE, 0, OneTokenEach,
                DueTodayNoAmount, FALSE),
   UserScenario("english", "INR", "english", FALSE, 0, SharedToken,
                DueToday, FALSE),
   UserScenario("english", "INR", "english", TRUE, 1, SharedToken,
                DueToday, FALSE),
   UserScenario("english", "INR", "english", TRUE, 0, OnlySecondUser,
                DueToday, FALSE),
   UserScenario("english", "INR", "Hindi", TRUE, 0, OneTokenEach,
                DueTodayNoAmount, TRUE),
   [UserScenario("Hindi", "INR", "english", FALSE, 0, OneTokenEach,
                 PartlyPaid, FALSE) EXCEPT !.autoDebit = TRUE]}

InitUsers ==
  /\ clock = 0
  /\ tz = 0
  /\ firebaseApp = TRUE
  /\ supabaseClient = TRUE
  /\ composeInput = NoInput
  /\ message = NoMessage
  /\ dateArgs = NoDates
  /\ daysBetween = NoDays
  /\ \E sc \in UserScenarios :
       /\ storeFails = sc.fails
       /\ settings =
            [u \in Users |->
               IF u = "u1"
               THEN [notifications_enabled |-> TRUE, reminder_time |-> 0,
                     language |-> sc.lang1, currency |-> sc.cur1]
               ELSE [notifications_enabled |-> sc.enabled2,
                     reminder_time |-> sc.time2,
                     language |-> sc.lang2, currency |-> "INR"]]
       /\ paymentsTable = sc.payments
       /\ cardsTable =
            [c \in CardIds |->
               [user_id |-> IF c = "c1" THEN "u1" ELSE "u2",
                billing_date |-> 0, is_archived |-> FALSE,
                is_auto_debit_enabled |-> sc.autoDebit]]
       /\ device_tokens = sc.endpoints
  /\ notification_logs = {}
  /\ run = [r \in Runs |-> IdleRun("")]
  /\ trace = [r \in Runs |-> NoTrace]
  /\ runsStarted = 0
  /\ prevTransient = {}

NextUsers == Tick \/ Start(1) \/ Step(1) \/ Cancel(1)

SpecUsers == InitUsers /\ [][NextUsers]_vars

\* Every await of the handler completes: the store and the gateway answer
\* or fail, and the platform does not stop the invocation.
NextFair == Tick \/ Start(1) \/ Step(1)

Fairness == WF_vars(Step(1))

SpecFair == InitUsers /\ [][NextFair]_vars /\ Fairness

\* One run per civil day, at the user's reminder time, over several days,
\* with a gateway that delivers every multicast to at least one token.
DailyScenarios ==
  {[payments |-> {Payment("p1", "c1", d)}, billing |-> 0] :
     d \in {-10, -6, 3, 9}}
  \cup {[payments |-> {}, billing |-> b] : b \in {-10, -2, 0, 5, 12}}
  \cup {[payments |-> {Payment("p1", "c1", 9), Payment("p2", "c1", 3)},
         billing |-> 0],
        [payments |-> {Payment("p1", "c1", 9), Payment("p2", "c1", 8)},
         billing |-> 0]}

InitDaily ==
  /\ clock = 0
  /\ tz = 0
  /\ firebaseApp = TRUE
  /\ supabaseClient = TRUE
  /\ storeFails = FALSE
  /\ composeInput = NoInput
  /\ message = NoMessage
  /\ dateArgs = NoDates
  /\ daysBetween = NoDays
  /\ settings = [u \in Users |->
                   [notifications_enabled |-> u = "u1", reminder_time |-> 0,
                    language |-> "english", currency |-> "INR"]]
  /\ \E sc \in DailyScenarios :
       /\ paymentsTable = sc.payments
       /\ cardsTable =
            [c \in CardIds |->
               [user_id |-> IF c = "c1" THEN "u1" ELSE "u2",
                billing_date |-> IF c = "c1" THEN sc.billing ELSE 0,
                is_archived |-> FALSE, is_auto_debit_enabled |-> FALSE]]
  /\ device_tokens \in {{<<"u1", "t1">>}, {<<"u1", "t1">>, <<"u1", "t2">>}}
  /\ notification_logs = {}
  /\ run = [r \in Runs |-> IdleRun("")]
  /\ trace = [r \in Runs |-> NoTrace]
  /\ runsStarted = 0
  /\ prevTransient = {}

\* The scheduler's request of the day.
StartDaily(r) == runsStarted = 0 /\ Start(r)

\* The multicast reaches at least one token.
SendPaymentDelivered(r) ==
  SendPayment(r) /\ Len(run'[r].logs) > Len(run[r].logs)

SendCardDelivered(r) ==
  SendCard(r) /\ Len(run'[r].logs) > Len(run[r].logs)

\* The day's run has returned; the next request comes a day later.
NextDay ==
  /\ run[1].pc = "idle"
  /\ runsStarted = 1
  /\ CivilDay(clock) < MaxDay
  /\ clock' = clock + TicksPerDay
  /\ runsStarted' = 0
  /\ UNCHANGED <<env, store, device_tokens, notification_logs, run, trace,
                 prevTransient>>

NextDaily ==
  \/ StartDaily(1)
  \/ LoadUser(1)
  \/ EvaluatePayment(1)
  \/ SendPaymentDelivered(1)
  \/ EvaluateCard(1)
  \/ SendCardDelivered(1)
  \/ InsertLogs(1)
  \/ DeleteTokens(1)
  \/ NextDay

SpecDaily == InitDaily /\ [][NextDaily]_vars

\* Message composition alone: one composition for each kind, language,
\* currency, day offset and amount.
ComposeInputs ==
  [kind : {"due", "overdue", "billing"}, lang : Languages,
   diffDays : {-2, 0, 1, 6}, remaining : Amounts, currency : Currencies,
   isAutoDebit : BOOLEAN]

InitCompose ==
  /\ clock = 0
  /\ tz = 0
  /\ firebaseApp = TRUE
  /\ supabaseClient = TRUE
  /\ storeFails = FALSE
  /\ composeInput \in ComposeInputs
  /\ message = NoMessage
  /\ dateArgs = NoDates
  /\ daysBetween = NoDays
  /\ settings = [u \in Users |->
                   [notifications_enabled |-> FALSE, reminder_time |-> 0,
                    language |-> "english", currency |-> "INR"]]
  /\ paymentsTable = {}
  /\ cardsTable =
       [c \in CardIds |->
          [user_id |-> IF c = "c1" THEN "u1" ELSE "u2", billing_date |-> 0,
           is_archived |-> FALSE, is_auto_debit_enabled |-> FALSE]]
  /\ device_tokens = {}
  /\ notification_logs = {}
  /\ run = [r \in Runs |-> IdleRun("")]
  /\ trace = [r \in Runs |-> NoTrace]
  /\ runsStarted = 0
  /\ prevTransient = {}

Compose ==
  /\ message = NoMessage
  /\ message' = composeMessage(composeInput.kind, composeInput.lang,
                               composeInput.diffDays, composeInput.remaining,
                               composeInput.currency, composeInput.isAutoDebit)
  /\ UNCHANGED <<clock, tz, firebaseApp, supabaseClient, storeFails,
                 composeInput, dateArgs, daysBetween, store, device_tokens,
                 notification_logs, run, trace, runsStarted, prevTransient>>

NextCompose == Compose

SpecCompose == InitCompose /\ [][NextCompose]_vars

\* Day arithmetic alone: getDaysDifference of two instants, in any time
\* zone, over a store with a payment or a card and a history.
Instants == -4 .. 5

InitDays ==
  /\ clock = 0
  /\ tz \in {-1, 0, 1}
  /\ firebaseApp = TRUE
  /\ supabaseClient = TRUE
  /\ storeFails = FALSE
  /\ composeInput = NoInput
  /\ message = NoMessage
  /\ dateArgs \in [d1 : Instants, d2 : Instants]
  /\ daysBetween = NoDays
  /\ settings = [u \in Users |->
                   [notifications_enabled |-> TRUE, reminder_time |-> 0,
                    language |-> "english", currency |-> "INR"]]
  /\ \E sc \in Scenarios :
       /\ paymentsTable = sc.payments
       /\ cardsTable =
            [c \in CardIds |->
               [user_id |-> IF c = "c1" THEN "u1" ELSE "u2",
                billing_date |-> IF c = "c1" THEN sc.billing ELSE 0,
                is_archived |-> FALSE, is_auto_debit_enabled |-> FALSE]]
  /\ device_tokens = {<<"u1", "t1">>}
  /\ notification_logs \in PriorLogs
  /\ run = [r \in Runs |-> IdleRun("")]
  /\ trace = [r \in Runs |-> NoTrace]
  /\ runsStarted = 0
  /\ prevTransient = {}

Difference ==
  /\ ~daysBetween.done
  /\ daysBetween' =
       [done |-> TRUE,
        forward |-> getDaysDifference(dateArgs.d1, dateArgs.d2),
        backward |-> getDaysDifference(dateArgs.d2, dateArgs.d1)]
  /\ UNCHANGED <<clock, tz, firebaseApp, supabaseClient, storeFails,
                 composeInput, message, dateArgs, store, device_tokens,
                 notification_logs, run, trace, runsStarted, prevTransient>>

NextDays == Difference

SpecDays == InitDays /\ [][NextDays]_vars

\* =================================================================== claims
\* Vocabulary of the claims, stated on the store and on what an invocation
\* has done so far.

\* The invocation is processing users: it has not yet written its history.
Processing(r) ==
  run[r].pc \in {"user", "payment", "sendPayment", "card", "sendCard"}

\* Civil-day offset from the invocation's now to a DATE (positive: future).
Offset(r, day) == CivilDay(DateOf(day)) - CivilDay(run[r].now)

Evaluated(r) == Range(trace[r].evals)

\* sendNotification has been called for the evaluation (the multicast is in
\* flight or answered).
Dispatched(r, e) == e \in Range(trace[r].sent) \/ run[r].pending = <<e>>

\* Payments and cards of the current user the loops have gone through.
DonePayments(r) ==
  {run[r].payments[i] :
     i \in 1 .. (Len(run[r].payments) - Len(run[r].todoPayments))}

DoneCards(r) ==
  {run[r].cards[i] : i \in 1 .. (Len(run[r].cards) - Len(run[r].todoCards))}

History(userId, cardId, kind) ==
  {l \in notification_logs :
     l.user_id = userId /\ l.card_id = cardId /\ l.notification_type = kind}

\* Civil days from the most recent history entry to the invocation's now.
DaysSinceLast(r, userId, cardId, kind) ==
  LET days == {CivilDay(l.sent_at) : l \in History(userId, cardId, kind)}
      sents == {l.sent_at : l \in History(userId, cardId, kind)}
      last == CHOOSE t \in sents : \A x \in sents : x <= t
  IN CivilDay(run[r].now) - CivilDay(last)

\* Far-zone rule: first touch, or the last send is at least 3 civil days old.
FarZoneFires(r, userId, cardId, kind) ==
  \/ History(userId, cardId, kind) = {}
  \/ DaysSinceLast(r, userId, cardId, kind) >= 3

PaymentEvaluation(r, p) ==
  {e \in Evaluated(r) :
     e.user_id = run[r].userId /\ e.subject = p.id
     /\ e.kind \in {"due", "overdue"}}

CardEvaluation(r, c) ==
  {e \in Evaluated(r) :
     e.user_id = run[r].userId /\ e.subject = c.id /\ e.kind = "billing"}

\* C1: every unpaid payment whose due date is 0 to 5 civil days ahead gets a
\* 'due' reminder dispatched in every run that processes it, whatever the
\* notification history of its card is.
C1_DueNearZoneAlwaysDispatched ==
  \A r \in Runs : \A p \in DonePayments(r) :
    Offset(r, p.due_date) \in 0 .. 5 =>
      \E e \in PaymentEvaluation(r, p) : e.kind = "due" /\ Dispatched(r, e)

\* A 'due' reminder goes out in the near zone although the card's last
\* 'due' entry is less than 3 days old.
C1_Witness ==
  \E r \in Runs : \E p \in DonePayments(r) :
    /\ Processing(r)
    /\ Offset(r, p.due_date) \in 1 .. 5
    /\ History(run[r].userId, p.cards, "due") # {}
    /\ DaysSinceLast(r, run[r].userId, p.cards, "due") < 3
    /\ \E e \in PaymentEvaluation(r, p) : e.kind = "due" /\ Dispatched(r, e)

PaymentEvaluationIndices(r, p) ==
  {i \in 1 .. Len(trace[r].evals) :
     /\ trace[r].evals[i].user_id = run[r].userId
     /\ trace[r].evals[i].subject = p.id
     /\ trace[r].evals[i].kind \in {"due", "overdue"}}

\* C5: in a run every payment is evaluated by exactly one of the Due and
\* Overdue branches, chosen by the sign of its offset (offset >= 0: Due, with
\* offset 0 dispatched as due-today; offset < 0: Overdue), and the run never
\* dispatches both a 'due' and an 'overdue' reminder for the same payment.
C5_DueOverdueExclusive ==
  \A r \in Runs :
    /\ \A p \in DonePayments(r) :
         Processing(r) =>
           /\ Cardinality(PaymentEvaluationIndices(r, p)) = 1
           /\ \A e \in PaymentEvaluation(r, p) :
                /\ e.kind = (IF Offset(r, p.due_date) >= 0
                             THEN "due" ELSE "overdue")
                /\ Offset(r, p.due_date) = 0 => Dispatched(r, e)
    /\ \A i, j \in 1 .. Len(trace[r].sent) :
         (/\ trace[r].sent[i].user_id = trace[r].sent[j].user_id
          /\ trace[r].sent[i].subject = trace[r].sent[j].subject
          /\ trace[r].sent[i].kind \in {"due", "overdue"}
          /\ trace[r].sent[j].kind \in {"due", "overdue"})
         => trace[r].sent[i].kind = trace[r].sent[j].kind

\* A payment due today has been dispatched as 'due', and nothing 'overdue'
\* was evaluated for it.
C5_Witness ==
  \E r \in Runs : \E p \in DonePayments(r) :
    /\ Processing(r)
    /\ Offset(r, p.due_date) = 0
    /\ \E e \in PaymentEvaluation(r, p) :
         e.kind = "due" /\ e \in Range(trace[r].sent)
    /\ ~\E e \in PaymentEvaluation(r, p) : e.kind = "overdue"

\* The cadence rule for a payment, from its offset and the card's history.
PaymentRuleFires(r, p) ==
  LET o == Offset(r, p.due_date) IN
  IF o >= 0
    THEN o <= 5 \/ FarZoneFires(r, run[r].userId, p.cards, "due")
  ELSE -o <= 7 \/ FarZoneFires(r, run[r].userId, p.cards, "overdue")

UnpaidPaymentsOf(r, c) ==
  {run[r].payments[i] : i \in {k \in 1 .. Len(run[r].payments) :
                                 run[r].payments[k].cards = c.id}}

\* C6: a card with at least one unpaid payment in the run's payment set gets
\* no 'billing' evaluation and no 'billing' dispatch, whatever its billing
\* offset and history; each of its payments is still evaluated and dispatched
\* by the due / overdue rule.
C6_BillingSuppressedByUnpaidPayment ==
  \A r \in Runs : \A c \in DoneCards(r) :
    (Processing(r) /\ UnpaidPaymentsOf(r, c) # {}) =>
      /\ CardEvaluation(r, c) = {}
      /\ ~\E i \in 1 .. Len(trace[r].sent) :
            /\ trace[r].sent[i].user_id = run[r].userId
            /\ trace[r].sent[i].card_id = c.id
            /\ trace[r].sent[i].kind = "billing"
      /\ run[r].pending # <<>> => run[r].pending[1].kind # "billing"
      /\ \A p \in UnpaidPaymentsOf(r, c) :
           \E e \in PaymentEvaluation(r, p) :
             Dispatched(r, e) <=> PaymentRuleFires(r, p)

\* The billing date of the card is today and the card has an unpaid payment:
\* the cards loop has passed the card without a 'billing' evaluation, and the
\* payment's reminder was dispatched.
C6_Witness ==
  \E r \in Runs : \E c \in DoneCards(r) :
    /\ Processing(r)
    /\ Offset(r, c.billing_date) = 0
    /\ UnpaidPaymentsOf(r, c) # {}
    /\ CardEvaluation(r, c) = {}
    /\ \E p \in UnpaidPaymentsOf(r, c) :
         \E e \in PaymentEvaluation(r, p) : e \in Range(trace[r].sent)

\* Response indices of one multicast with the given outcome.
IndicesWith(s, o) == {i \in 1 .. Len(s.outcomes) : s.outcomes[i] = o}

\* The k-th smallest element of a set of indices.
KthOf(S, k) == CHOOSE i \in S : Cardinality({j \in S : j <= i}) = k

\* C7: one multicast to N tokens with M successes and F permanent failures
\* appends exactly M history records for the reminder to the run's log list
\* and exactly F tokens to the cleanup list, namely the tokens at the indices
\* that failed permanently, in order; M + F <= N; a multicast that throws
\* appends nothing.
C7_DispatchAccounting ==
  \A r \in Runs :
    trace[r].lastSend # <<>> =>
      LET s == trace[r].lastSend[1]
          N == Len(s.tokens)
          M == Cardinality(IndicesWith(s, "success"))
          perm == IndicesWith(s, "permanent")
          F == Cardinality(perm)
          logs == run[r].logs
          failed == run[r].failedTokens
          nl == Len(s.logsBefore)
          nf == Len(s.failedBefore)
      IN IF s.threw
           THEN logs = s.logsBefore /\ failed = s.failedBefore
         ELSE
           /\ Len(s.outcomes) = N
           /\ M + F <= N
           /\ Len(logs) = nl + M
           /\ SubSeq(logs, 1, nl) = s.logsBefore
           /\ \A k \in 1 .. M :
                /\ logs[nl + k].user_id = s.ev.user_id
                /\ logs[nl + k].card_id = s.ev.card_id
                /\ logs[nl + k].notification_type = s.ev.kind
           /\ Len(failed) = nf + F
           /\ SubSeq(failed, 1, nf) = s.failedBefore
           /\ \A k \in 1 .. F : failed[nf + k] = s.tokens[KthOf(perm, k)]

\* Of two tokens the first succeeds and the second fails with not-found
\* class: one record is appended and exactly the second token is queued.
C7_Witness ==
  \E r \in Runs :
    /\ trace[r].lastSend # <<>>
    /\ ~trace[r].lastSend[1].threw
    /\ trace[r].lastSend[1].outcomes = <<"success", "permanent">>
    /\ Len(run[r].logs) = Len(trace[r].lastSend[1].logsBefore) + 1
    /\ run[r].failedTokens =
         Append(trace[r].lastSend[1].failedBefore,
                trace[r].lastSend[1].tokens[2])

\* C8: a token's transient failure appends no history record and queues no
\* token, and the reminder is retried by the next run: when the previous run
\* that processed the user had a transient failure for an obligation on an
\* earlier day, the current run dispatches that obligation's reminder again.
C8_TransientFailureRetried ==
  \A r \in Runs :
    /\ (trace[r].lastSend # <<>> /\ ~trace[r].lastSend[1].threw) =>
         LET s == trace[r].lastSend[1] IN
         /\ Len(run[r].logs) - Len(s.logsBefore)
              = Cardinality(IndicesWith(s, "success"))
         /\ \A i \in IndicesWith(s, "transient") :
              \A k \in (Len(s.failedBefore) + 1) .. Len(run[r].failedTokens) :
                run[r].failedTokens[k] # s.tokens[i]
    /\ \A e \in Evaluated(r) : \A x \in prevTransient :
         (/\ Processing(r)
          /\ x.user_id = e.user_id /\ x.card_id = e.card_id
          /\ x.kind = e.kind
          /\ CivilDay(run[r].now) > x.day)
         => Dispatched(r, e)

\* A payment or card evaluation in the far zone of its rule.
FarZone(e) ==
  \/ e.kind = "due" /\ e.diff > 5
  \/ e.kind = "overdue" /\ e.diff < -7
  \/ e.kind = "billing" /\ Abs(e.diff) > 3

\* The history holds an entry for the obligation sent on the civil day of
\* the run.
SentToday(r, userId, cardId, kind) ==
  \E l \in History(userId, cardId, kind) :
    CivilDay(l.sent_at) = CivilDay(run[r].now)

Delivered(r, e) ==
  /\ e \in Range(trace[r].sent)
  /\ \E i \in 1 .. Len(run[r].logs) :
       /\ run[r].logs[i].user_id = e.user_id
       /\ run[r].logs[i].card_id = e.card_id
       /\ run[r].logs[i].notification_type = e.kind

\* C10: two overlapping invocations never both send the same far-zone
\* reminder: there are no two invocations in flight that have each delivered
\* the far-zone reminder of the same user, card and kind.
C10_OverlapNoDuplicate ==
  \A r1, r2 \in Runs :
    r1 # r2 =>
      ~\E e1 \in Evaluated(r1), e2 \in Evaluated(r2) :
         /\ e1.user_id = e2.user_id /\ e1.card_id = e2.card_id
         /\ e1.kind = e2.kind
         /\ FarZone(e1) /\ FarZone(e2)
         /\ Delivered(r1, e1) /\ Delivered(r2, e2)

\* C11: within one run every (subject, kind) that fires is sent to the
\* gateway in exactly one batched call, which covers all of the user's
\* tokens: no two gateway calls of a run are for the same user, card and
\* kind, also when the user has several unpaid payments on one card.
C11_OneCallPerSubjectAndKind ==
  \A r \in Runs :
    /\ \A i, j \in 1 .. Len(trace[r].sent) :
         (/\ trace[r].sent[i].user_id = trace[r].sent[j].user_id
          /\ trace[r].sent[i].card_id = trace[r].sent[j].card_id
          /\ trace[r].sent[i].kind = trace[r].sent[j].kind)
         => i = j
    /\ trace[r].lastSend # <<>> =>
         trace[r].lastSend[1].tokens =
           getDeviceTokens(trace[r].lastSend[1].ev.user_id)

\* One step of invocation r seen by the persistence rule: nothing is inserted
\* or deleted while users are processed; the insert step inserts all
\* accumulated records in one call iff there is one; the delete step deletes
\* all accumulated tokens in one call iff there is one.
PersistenceStep(r) ==
  /\ run'[r].pc \in {"user", "payment", "sendPayment", "card", "sendCard"}
       => trace'[r].inserts = 0 /\ trace'[r].deletes = 0
  /\ (run[r].pc = "insert" /\ run'[r].pc = "delete") =>
       /\ run[r].usersToNotify = <<>>
       /\ trace'[r].inserts = (IF Len(run[r].logs) > 0 THEN 1 ELSE 0)
       /\ notification_logs' = notification_logs \cup Range(run[r].logs)
  /\ (run[r].pc = "delete" /\ run'[r].pc = "idle"
      /\ run'[r].response = "200 Notification routine complete") =>
       /\ trace'[r].inserts = (IF trace[r].inserts > 0 THEN 1 ELSE 0)
       /\ trace'[r].deletes = (IF Len(run[r].failedTokens) > 0 THEN 1 ELSE 0)
       /\ device_tokens' =
            {d \in device_tokens : d[2] \notin Range(run[r].failedTokens)}

\* C12 (as amended): in every run, after the last user has been processed,
\* the orchestrator makes at most one bulk insert and at most one bulk delete:
\* one insert of all accumulated history records iff there is at least one,
\* one delete of all accumulated invalid tokens iff there is at least one;
\* the history and the endpoints change in no other step.
C12_BulkPersistenceAtEnd ==
  [][/\ \A r \in Runs : PersistenceStep(r)
     /\ notification_logs' # notification_logs =>
          \E r \in Runs : run[r].pc = "insert" /\ run[r].usersToNotify = <<>>
     /\ device_tokens' # device_tokens =>
          \E r \in Runs : run[r].pc = "delete" /\ run[r].usersToNotify = <<>>
    ]_vars

\* A run that processed both users has made its one insert and is about to
\* make its one delete.
C12_Witness ==
  \E r \in Runs :
    /\ run[r].pc = "delete"
    /\ trace[r].inserts = 1
    /\ Len(run[r].failedTokens) > 0
    /\ {e.user_id : e \in Evaluated(r)} = Users
    /\ Range(run[r].logs) \subseteq notification_logs

\* C12 (as stated): every run that processed its users has made exactly one
\* bulk insert and exactly one bulk delete, and none before the last user.
C12_ExactlyOneInsertAndDelete ==
  \A r \in Runs :
    /\ Processing(r) => trace[r].inserts = 0 /\ trace[r].deletes = 0
    /\ (run[r].pc = "idle"
        /\ run[r].response = "200 Notification routine complete")
       => trace[r].inserts = 1 /\ trace[r].deletes = 1

\* C13: a failure while processing one user or one obligation (a failed
\* read, a gateway error, a composition error) never aborts the run: an
\* invocation that found users to notify ends only after its last user, with
\* its accumulated records persisted, and reports success.
C13_FailureNeverAbortsRun ==
  \A r \in Runs :
    (/\ run[r].pc = "idle"
     /\ run[r].response \notin {"", "405 Method Not Allowed",
                                "500 not initialized",
                                "200 No users to notify", "cancelled"})
    => /\ run[r].response = "200 Notification routine complete"
       /\ run[r].usersToNotify = <<>>
       /\ Range(run[r].logs) \subseteq notification_logs

\* Users whose processing the invocation has finished.
CompletedUsers(r) ==
  {e.user_id : e \in Evaluated(r)} \ Range(run[r].usersToNotify)

\* C14: when a run is cancelled or stops mid-flight after some users have
\* been completed, the history records and the invalid tokens accumulated for
\* the completed users are flushed to the store.
C14_StoppedRunFlushesCompletedUsers ==
  \A r \in Runs :
    (run[r].pc = "idle"
     /\ run[r].response \in {"cancelled", "500 Internal Server Error"})
    => /\ \A i \in 1 .. Len(run[r].logs) :
            run[r].logs[i].user_id \in CompletedUsers(r)
              => run[r].logs[i] \in notification_logs
       /\ \A d \in device_tokens :
            d[1] \in CompletedUsers(r) => d[2] \notin Range(run[r].failedTokens)

\* C15: when the data-store client or the push-gateway client is not
\* initialized, every request is answered at once with an error response; no
\* invocation gets as far as querying users, sending to the gateway,
\* inserting history or deleting tokens.
C15_NotInitializedFailsImmediately ==
  [][(~supabaseClient \/ ~firebaseApp) =>
       /\ \A r \in Runs :
            /\ run'[r].pc = "idle"
            /\ run'[r].usersToNotify = <<>>
            /\ trace'[r] = NoTrace
            /\ run'[r] # run[r] =>
                 run'[r].response \in {"500 not initialized",
                                      "405 Method Not Allowed"}
       /\ UNCHANGED <<notification_logs, device_tokens>>
    ]_vars

\* A request at a slot with users to notify is answered 500 because only
\* the push-gateway client is missing.
C15_Witness ==
  /\ supabaseClient /\ ~firebaseApp
  /\ run[1].response = "500 not initialized"
  /\ getUsersToNotify(TimeOfDay(clock)) # <<>>

\* The user's profile has notifications enabled and its preferred send time
\* is the slot of the invocation.
Eligible(r, userId) ==
  /\ settings[userId].notifications_enabled
  /\ settings[userId].reminder_time = run[r].now % TicksPerDay

\* C16: a run evaluates, dispatches to and accumulates history records for
\* eligible users only: a user with notifications disabled or with another
\* reminder time gets no send and no history record from the run.
C16_OnlyEligibleUsersNotified ==
  \A r \in Runs :
    /\ \A e \in Evaluated(r) : Eligible(r, e.user_id)
    /\ \A e \in Range(trace[r].sent) \cup Range(run[r].pending) :
         Eligible(r, e.user_id)
    /\ \A l \in Range(run[r].logs) : Eligible(r, l.user_id)

\* A run has gone through its users and sent to u1; u2, who has a device
\* token and a card whose billing date is today but is not eligible, got
\* nothing.
C16_Witness ==
  \E r \in Runs :
    /\ run[r].pc = "insert"
    /\ ~Eligible(r, "u2")
    /\ getDeviceTokens("u2") # <<>>
    /\ \E c \in Range(getUserCards("u2")) : Offset(r, c.billing_date) = 0
    /\ \E e \in Range(trace[r].sent) : e.user_id = "u1"
    /\ ~\E e \in Evaluated(r) : e.user_id = "u2"

\* Users the run has loaded and found without a profile or without a token.
UsersToSkip(r) ==
  {x.user_id : x \in {y \in trace[r].loaded : ~y.profile \/ y.tokens = 0}}

\* C17: a user for whom the run found no profile or no device token is
\* skipped: the run evaluates nothing for that user (so makes no history
\* lookup), makes no gateway call, accumulates no history record, and goes on
\* to the next user.
C17_UserWithoutTokenOrProfileSkipped ==
  \A r \in Runs : \A u \in UsersToSkip(r) :
    /\ ~\E e \in Evaluated(r) : e.user_id = u
    /\ ~\E e \in Range(trace[r].sent) \cup Range(run[r].pending) :
          e.user_id = u
    /\ ~\E l \in Range(run[r].logs) : l.user_id = u
    /\ u \notin Range(run[r].usersToNotify)
    /\ run[r].response # "500 Internal Server Error" \/ run[r].userId # u

\* u1 has no device token and was skipped; the run went on with u2 and
\* dispatched u2's reminder.
C17_Witness ==
  \E r \in Runs :
    /\ \E x \in trace[r].loaded :
         x.user_id = "u1" /\ x.profile /\ x.tokens = 0
    /\ \E e \in Range(trace[r].sent) : e.user_id = "u2"

\* The record is for a reminder that some invocation got a success response
\* for.
FromSuccess(l) ==
  \E r \in Runs : \E e \in trace[r].succeeded :
    /\ e.user_id = l.user_id
    /\ e.card_id = l.card_id
    /\ e.kind = l.notification_type

\* Every far-zone decision of a run in progress is the 3-day rule applied to
\* the most recent history entry of the (user, card, kind).
MostRecentEntryDecides ==
  \A r \in Runs :
    Processing(r) =>
      \A e \in Evaluated(r) :
        FarZone(e) =>
          (e.send <=> FarZoneFires(r, e.user_id, e.card_id, e.kind))

C19_OnlyInvalidEndpointsDeleted ==
  [][\A d \in device_tokens \ device_tokens' :
       \E r \in Runs : d \in trace[r].invalid
    ]_vars

\* C20: message composition is total: for every kind, every language value
\* (supported, unsupported or missing) and every currency value, composing
\* does not fail and returns a non-empty title and body, and a missing or
\* unsupported language gets the English templates.
C20_CompositionTotal ==
  message # NoMessage =>
    /\ ~message.thrown
    /\ Len(message.title) > 0 /\ Len(message.body) > 0
    /\ message.title[1] = (IF composeInput.lang \in {"hindi", "Hindi"}
                           THEN "hi" ELSE "en")

\* C21: every due or overdue reminder dispatched for a payment whose card
\* has the auto-debit flag set carries the auto-debit advisory in its body,
\* and a reminder for a card without the flag does not.
C21_AutoDebitAdvisory ==
  \A r \in Runs : \A e \in Range(trace[r].sent) \cup Range(run[r].pending) :
    e.kind \in {"due", "overdue"} =>
      (cardsTable[e.card_id].is_auto_debit_enabled
         <=> "auto-debit is enabled" \in Range(e.body))

\* What is still owed on a payment: its amount less what was already paid.
Outstanding(row) == row.due_amount - row.paid_amount

\* C26: the amount a due or overdue reminder renders is the payment's
\* outstanding amount, what is still owed after the amount already paid; for
\* a partly paid payment it is less than the statement amount.
C26_RendersOutstandingAmount ==
  \A r \in Runs : \A e \in Range(trace[r].sent) \cup Range(run[r].pending) :
    \A row \in paymentsTable :
      /\ e.kind \in {"due", "overdue"}
      /\ row.id = e.subject
      /\ row.statement_amount # NoAmount
      => /\ ToString(Outstanding(row)) \in Range(e.body)
         /\ row.paid_amount > 0 =>
              ToString(row.statement_amount) \notin Range(e.body)

\* C22: every dispatch carries a collapse identifier derived from kind and
\* subject, and two dispatches carry the same identifier exactly when they
\* are for the same kind and the same subject (the payment for due and
\* overdue, the card for billing): reminders of different obligations never
\* replace each other.
C22_CollapseIdPerObligation ==
  \A r \in Runs :
    /\ trace[r].lastSend # <<>> =>
         trace[r].lastSend[1].tag =
           collapseId(trace[r].lastSend[1].ev.kind,
                      trace[r].lastSend[1].ev.card_id)
    /\ \A e1, e2 \in Range(trace[r].sent) :
         collapseId(e1.kind, e1.card_id) = collapseId(e2.kind, e2.card_id)
           <=> (e1.kind = e2.kind /\ e1.subject = e2.subject)

\* The calendar date of an instant in the reference time zone.
CalendarDate(t) == (t + tz) \div TicksPerDay

\* The cadence decisions of a run at instant now over the current store and
\* history: for every unpaid payment and every card, the reminder chosen.
Decisions(now) ==
  [payments |->
     {[id |-> row.id,
       reminder |->
         paymentReminder(row.user_id, row.card_id,
                         getDaysDifference(now, DateOf(row.due_date)), now)] :
        row \in {x \in paymentsTable : ~x.is_paid}},
   cards |->
     [c \in CardIds |->
        shouldSendBilling(cardsTable[c].user_id, c,
                          getDaysDifference(now,
                                            DateOf(cardsTable[c].billing_date)),
                          now)]]

\* C23: day differences are civil-date differences: getDaysDifference(d1, d2)
\* is the number of calendar dates from d1's date to d2's date, whatever the
\* times of day are, getDaysDifference(d1, d2) = -getDaysDifference(d2, d1),
\* and two run times within the same civil day give the same cadence
\* decisions over the same history.
C23_CivilDateDifference ==
  /\ daysBetween.done =>
       /\ daysBetween.forward =
            CalendarDate(dateArgs.d2) - CalendarDate(dateArgs.d1)
       /\ daysBetween.forward = -daysBetween.backward
  /\ CalendarDate(dateArgs.d1) = CalendarDate(dateArgs.d2) =>
       Decisions(dateArgs.d1) = Decisions(dateArgs.d2)

\* A difference was taken between instants at different times of day, on
\* different dates, with less than a whole day elapsed between them.
C23_Witness ==
  /\ daysBetween.done
  /\ TimeOfDay(dateArgs.d1) # TimeOfDay(dateArgs.d2)
  /\ dateArgs.d2 - dateArgs.d1 < TicksPerDay
  /\ daysBetween.forward = 1

ReturnsSuccess(r) ==
  /\ run[r].pc # "idle"
  /\ run'[r].pc = "idle"
  /\ run'[r].response = "200 Notification routine complete"

\* Every user selected for the invocation's slot has been processed.
AllUsersProcessed(r) ==
  /\ run[r].usersToNotify = <<>>
  /\ {x.user_id : x \in trace[r].loaded}
       = Range(getUsersToNotify(TimeOfDay(run[r].now)))

\* C25 (as amended): every run terminates, and it returns the success
\* response only after all eligible users were processed and each bulk
\* persistence call that has something to persist has been made: the
\* collected records are in the history and no endpoint holds a token queued
\* for deletion.
C25_RunTerminates ==
  /\ \A r \in {1} : (run[r].pc # "idle") ~> (run[r].pc = "idle")
  /\ [][\A r \in Runs :
          ReturnsSuccess(r) =>
            /\ AllUsersProcessed(r)
            /\ trace'[r].inserts = (IF Len(run[r].logs) > 0 THEN 1 ELSE 0)
            /\ trace'[r].deletes =
                 (IF Len(run[r].failedTokens) > 0 THEN 1 ELSE 0)
            /\ Range(run[r].logs) \subseteq notification_logs'
            /\ \A d \in device_tokens' :
                 d[2] \notin Range(run[r].failedTokens)
       ]_vars

\* A run over both users has returned the success response after one insert
\* and one delete.
C25_Witness ==
  /\ run[1].pc = "idle"
  /\ run[1].response = "200 Notification routine complete"
  /\ trace[1].inserts = 1
  /\ trace[1].deletes = 1
  /\ \E l \in notification_logs : l.user_id = "u2"

\* C25 (as stated): every run terminates, and it returns the success
\* response only after all eligible users were processed and both bulk
\* persistence calls, the history insert and the token delete, were made.
C25_BothCallsBeforeSuccess ==
  /\ \A r \in {1} : (run[r].pc # "idle") ~> (run[r].pc = "idle")
  /\ [][\A r \in Runs :
          ReturnsSuccess(r) =>
            /\ AllUsersProcessed(r)
            /\ trace'[r].inserts = 1
            /\ trace'[r].deletes = 1
       ]_vars

\* The run of the day has returned with the success response.
DayDone ==
  /\ run[1].pc = "idle"
  /\ runsStarted = 1
  /\ run[1].response = "200 Notification routine complete"

\* The history holds the reminder of payment row for civil day d: an entry
\* for its user, card and kind whose title is the one composed for the
\* payment's offset on that day.
RemindedOn(row, d) ==
  LET diff == row.due_date - d
      kind == IF diff >= 0 THEN "due" ELSE "overdue"
  IN \E l \in History(row.user_id, row.card_id, kind) :
       /\ CivilDay(l.sent_at) = d
       /\ l.title = composeMessage(kind, settings[row.user_id].language, diff,
                                   row.statement_amount,
                                   settings[row.user_id].currency, FALSE).title

Today == CivilDay(clock)

\* The user is selected by the daily run and has an endpoint.
EligibleDaily(userId) ==
  /\ settings[userId].notifications_enabled
  /\ getDeviceTokens(userId) # <<>>

\* C27: with one run per civil day and every multicast delivered to at least
\* one token, every unpaid payment of an eligible user gets a due or overdue
\* reminder at least once in every 3 consecutive days, also when the user
\* has several unpaid payments on one card.
C27_PaymentRemindedEveryThreeDays ==
  (DayDone /\ Today >= 2) =>
    \A row \in paymentsTable :
      (~row.is_paid /\ EligibleDaily(row.user_id)) =>
        \E d \in (Today - 2) .. Today : RemindedOn(row, d)

\* The history holds a billing reminder of card c sent on civil day d.
BillingRemindedOn(c, d) ==
  \E l \in History(cardsTable[c].user_id, c, "billing") :
    CivilDay(l.sent_at) = d

\* C29: billing reminders have no outer bound: with one run per day and
\* every multicast delivered, a non-archived card without unpaid payment gets
\* a billing reminder at least once in every 3 consecutive days, however far
\* in the past or the future its billing date is.
C29_BillingEveryThreeDays ==
  DayDone =>
    \A c \in CardIds :
      (/\ ~cardsTable[c].is_archived
       /\ EligibleDaily(cardsTable[c].user_id)
       /\ ~\E row \in paymentsTable : row.card_id = c /\ ~row.is_paid)
      => \E d \in (Today - 2) .. Today : d >= 0 /\ BillingRemindedOn(c, d)

\* On the fourth day of daily runs a card whose billing date is more than a
\* week away, in the future or in the past, got its second far-zone reminder.
C29_Witness ==
  /\ DayDone
  /\ Today = 3
  /\ \E c \in CardIds :
       /\ Abs(cardsTable[c].billing_date - Today) > 7
       /\ BillingRemindedOn(c, 0)
       /\ BillingRemindedOn(c, 3)
       /\ ~BillingRemindedOn(c, 1) /\ ~BillingRemindedOn(c, 2)

\* The evaluation e of a run, as it was gap days before the run.
Earlier(e, gap) == [e EXCEPT !.diff = e.diff + gap]

\* A run that dispatches the far-zone reminder e is at least 3 civil days
\* later than every far-zone reminder of the same user, card and kind that
\* an earlier run delivered and recorded.
ThreeDaysAfterDelivered(r, e) ==
  \A l \in History(e.user_id, e.card_id, e.kind) :
    LET gap == CivilDay(run[r].now) - CivilDay(l.sent_at)
    IN FarZone(Earlier(e, gap)) => gap >= 3

\* The same, for the far-zone reminders the previous run dispatched and the
\* gateway did not deliver to every token.
ThreeDaysAfterUndelivered(r, e) ==
  \A x \in prevTransient :
    LET gap == CivilDay(run[r].now) - x.day
    IN (/\ x.user_id = e.user_id /\ x.card_id = e.card_id
        /\ x.kind = e.kind
        /\ FarZone(Earlier(e, gap))) => gap >= 3

MulticastThrew(r) ==
  /\ run[r].pc \in {"sendPayment", "sendCard"}
  /\ trace'[r].lastSend # <<>>
  /\ trace'[r].lastSend[1].threw

\* C30: when the batched gateway call itself throws, sendNotification
\* appends nothing to the history list and nothing to the cleanup list, the
\* error does not leave it, and the user's remaining obligations are
\* processed next: the loop that made the call goes on with what it had left.
C30_GatewayThrowIsContained ==
  [][\A r \in Runs :
       MulticastThrew(r) =>
         /\ run'[r].logs = run[r].logs
         /\ run'[r].failedTokens = run[r].failedTokens
         /\ run'[r].pc = (IF run[r].pc = "sendPayment" THEN "payment"
                          ELSE "card")
         /\ run'[r].response = run[r].response
         /\ run'[r].todoPayments = run[r].todoPayments
         /\ run'[r].todoCards = run[r].todoCards
         /\ run'[r].usersToNotify = run[r].usersToNotify
         /\ notification_logs' = notification_logs
         /\ device_tokens' = device_tokens
    ]_vars

\* The multicast for the first of two payments threw; the run is back in the
\* payments loop with the second payment still to process and nothing
\* collected.
C30_Witness ==
  \E r \in Runs :
    /\ trace[r].lastSend # <<>>
    /\ trace[r].lastSend[1].threw
    /\ run[r].pc = "payment"
    /\ run[r].todoPayments # <<>>
    /\ run[r].logs = <<>> /\ run[r].failedTokens = <<>>

====
